---------------------------- MODULE Spec2Model ----------------------------
(***************************************************************************)
(* State-machine model of the two front-ends of the BeamNG map generator:  *)
(*   - the React application  (src/unnamed/part_000, "App.tsx"):           *)
(*     MapSelector (two-click selection), App (output path, generation,    *)
(*     progress subscription, result rendering);                           *)
(*   - the plain-DOM front-end (src/unnamed/part_001 with                  *)
(*     src/tauri-app/src/src/map.ts).                                      *)
(* Exactly one of the two runs in a window; `program` says which.         *)
(* Every action is one event-loop handler run to completion, the React     *)
(* re-render that follows its state updates included.                      *)
(*                                                                         *)
(* Text is modelled as a tuple of one-character strings so that            *)
(* concatenation and String.prototype.includes are computed.  The Russian  *)
(* marker word of part_000:133/194 is written in Latin transliteration     *)
(* ("Oshibka").                                                            *)
(***************************************************************************)
EXTENDS Integers, Sequences, FiniteSets, TLC

VARIABLES
    program,          \* "app" (part_000) or "legacy" (part_001 + map.ts)
    \* ---- MapSelector state (part_000:23-24)
    selectionStart, selectionEnd,
    \* ---- App state (part_000:86-93)
    bbox, outputPath, isGenerating, progress, result,
    \* ---- what React has rendered (part_000:139-252), and the root's life
    view, mounted, crashed,
    \* ---- the progress subscription of the effect (part_000:95-103)
    listenPromise, handlerRegistered, cleanupRan,
    \* ---- backend commands issued and not yet settled
    pending,
    \* ---- plain-DOM front-end (map.ts:9, part_001:3-5, #progressbar)
    lastBounds, currentBBox, bboxDiv, genBtnDisabled, progressbar,
    \* ---- the handler that ran last, with its input
    lastOp

appState == <<selectionStart, selectionEnd, bbox, outputPath, isGenerating,
              progress, result>>
subState == <<listenPromise, handlerRegistered, cleanupRan>>
legacyState == <<lastBounds, currentBBox, bboxDiv, genBtnDisabled, progressbar>>
vars == <<program, appState, view, mounted, crashed, subState, pending,
          legacyState, lastOp>>

---------------------------------------------------------------------------
(* Bounds and input sets *)

MaxLat == 1           \* clicked latitudes are 0..MaxLat
MaxPending == 2       \* outstanding commands the model follows

Lats == 0..MaxLat
Lngs == {0, 1}
Points == {<<la, ln>> : la \in Lats, ln \in Lngs}

Null == <<>>                 \* null of a point / bounding box / bounds
NoPath == <<>>               \* the empty string '' of outputPath
EmptyText == <<>>            \* the empty string '' of result

Min(a, b) == IF a <= b THEN a ELSE b
Max(a, b) == IF a >= b THEN a ELSE b

\* text values
Marker == <<"O", "s", "h", "i", "b", "k", "a">>
\* faulty variant: a failure text without the marker word
ErrorPrefix_NoMarker == <<"E", "r", "r", ":", " ">>
ErrorPrefix == Marker \o <<":", " ">>
TextOK == <<"O", "K">>
TextDiskFull == <<"d", "i", "s", "k">>
TextNull == <<"n", "u", "l", "l">>
TextMarkerPath == <<"/">> \o Marker

\* String.prototype.includes
Includes(s, sub) ==
    \E i \in 0..(Len(s) - Len(sub)) : SubSeq(s, i + 1, i + Len(sub)) = sub

\* what the backend command may resolve with (a string)
Responses == {EmptyText, TextOK, TextMarkerPath}

\* what the backend command may reject with: a string or null
ErrStr(t) == [kind |-> "str", text |-> t]
ErrNull == [kind |-> "null"]
Errors == {ErrStr(TextDiskFull), ErrNull}

\* `${error}` : the string conversion of the rejection value
JsString(e) == IF e.kind = "str" THEN e.text ELSE TextNull

\* what the directory dialog may return: null (cancel) or a string
DirA == <<"/", "a">>
DirB == <<"/", "b">>
Cancelled == [kind |-> "null"]
Chosen(p) == [kind |-> "str", text |-> p]
DialogResults == {Cancelled, Chosen(EmptyText), Chosen(DirA), Chosen(DirB)}

\* progress event payloads: the typed object of part_000:17-20, the
\* JSON-stringified encoding read by part_001:21-25, or null
PObj(s, n) == [kind |-> "obj", stage |-> s, progress |-> n]
PStr(j) == [kind |-> "str", json |-> j]
PNull == [kind |-> "null"]
InitialProgress == PObj("", 0)
Payloads == {PObj("tiles", 42), PStr("{progress,text}"), PNull}
\* further JSON texts, told apart only by JSON.parse of part_001:23
LegacyPayloads == Payloads \cup {PStr("5"), PStr("garbage")}

\* a payload that is a GenerationProgress
Decodable(p) == p.kind = "obj"

\* a payload that is the JSON text of a {progress, text} object
LegacyDecodable(p) == p.kind = "str" /\ p.json = "{progress,text}"


---------------------------------------------------------------------------
(* Pure helpers of the React application *)

\* faulty variant: the two points taken as the corners, without min / max
MakeBBox_NoMinMax(p0, p1) == <<p0[1], p0[2], p1[1], p1[2]>>

\* part_000:34-39, the box of two clicked points <<lat, lng>>:
\* <<min_lat, min_lng, max_lat, max_lng>>
MakeBBox(p0, p1) ==
    <<Min(p0[1], p1[1]), Min(p0[2], p1[2]), Max(p0[1], p1[1]), Max(p0[2], p1[2])>>

\* faulty variant: the disabled attribute forgets isGenerating
GenerateDisabled_NoInFlight(b, o, g) == b = Null \/ o = NoPath

\* part_000:173, the disabled attribute of the generate button
GenerateDisabled(b, o, g) == b = Null \/ o = NoPath \/ g

\* part_000:193-196, the result panel: none for '', else keyed on the marker
ResultPanel(r) ==
    IF r = EmptyText THEN "none"
    ELSE IF Includes(r, Marker) THEN "error" ELSE "success"

\* part_000:179-191, the progress bar, rendered only while generating
Hidden == [kind |-> "hidden"]
ProgressBar(g, p) ==
    IF g THEN [kind |-> "bar", width |-> p.progress, stage |-> p.stage]
    ELSE Hidden

\* part_000:188, progress.progress.toFixed(0) throws a TypeError when
\* progress is null or progress.progress is undefined
RenderThrows(g, p) == g /\ p.kind # "obj"

\* part_000:139-252 with part_000:52-82: what one render of App shows
Render(ss, se, b, o, g, p, r) ==
    [disabled |-> GenerateDisabled(b, o, g),
     bar      |-> ProgressBar(g, p),
     panel    |-> ResultPanel(r),
     reset    |-> (ss # Null /\ se # Null)]

\* nothing is shown once the root is unmounted
Blank == [disabled |-> TRUE, bar |-> Hidden, panel |-> "none", reset |-> FALSE]

\* the outcome the view state stands for: result '' is "no outcome"
Outcome(r) ==
    IF r = EmptyText THEN [tag |-> "absent"]
    ELSE IF Includes(r, Marker) THEN [tag |-> "Failure", message |-> r]
    ELSE [tag |-> "Success", message |-> r]

Op(name, a) == [op |-> name, arg |-> a]

---------------------------------------------------------------------------
(* The effect's cleanup, part_000:100-102: unlisten.then(fn => fn()).      *)
(* With the promise already resolved fn runs at once; while it is pending  *)
(* the callback waits for ListenResolves; after a rejection it never runs. *)
Cleanup ==
    /\ cleanupRan' = TRUE
    /\ handlerRegistered' =
          (IF listenPromise = "resolved" THEN FALSE ELSE handlerRegistered)
    /\ UNCHANGED listenPromise

\* The end of every handler that called a state setter: the new state is
\* committed and App re-renders; a render that throws unmounts the root,
\* which runs the effect's cleanup.
Commit(ss, se, b, o, g, p, r) ==
    /\ selectionStart' = ss
    /\ selectionEnd' = se
    /\ bbox' = b
    /\ outputPath' = o
    /\ isGenerating' = g
    /\ progress' = p
    /\ result' = r
    /\ IF RenderThrows(g, p)
       THEN /\ mounted' = FALSE
            /\ crashed' = TRUE
            /\ view' = Blank
            /\ Cleanup
       ELSE /\ view' = Render(ss, se, b, o, g, p, r)
            /\ UNCHANGED <<mounted, crashed, subState>>

\* a handler that sets no state: nothing re-renders
NoCommit == UNCHANGED <<appState, view, mounted, crashed, subState>>

AppRunning == program = "app" /\ mounted

\* the SelectionState the two nullable points of part_000:23-24 stand for
SelectionState ==
    IF selectionStart = Null THEN "Empty"
    ELSE IF selectionEnd = Null THEN "FirstPointCaptured"
    ELSE "Complete"

---------------------------------------------------------------------------
(* MapSelector, part_000:22-83 *)

\* faulty variant: a click on a complete selection starts a new one
MapClick_ThirdClickRestarts(p) ==
    /\ AppRunning
    /\ lastOp' = Op("click", p)
    /\ IF selectionStart = Null \/ selectionEnd # Null
       THEN Commit(p, Null, bbox, outputPath, isGenerating, progress, result)
       ELSE Commit(selectionStart, p, MakeBBox(selectionStart, p), outputPath,
                   isGenerating, progress, result)
    /\ UNCHANGED <<program, pending, legacyState>>

\* faulty variant: the first click already hands a (degenerate) box over
MapClick_EmitsOnFirst(p) ==
    /\ AppRunning
    /\ lastOp' = Op("click", p)
    /\ IF selectionStart = Null
       THEN Commit(p, selectionEnd, MakeBBox(p, p), outputPath, isGenerating,
                   progress, result)
       ELSE IF selectionEnd = Null
       THEN Commit(selectionStart, p, MakeBBox(selectionStart, p), outputPath,
                   isGenerating, progress, result)
       ELSE NoCommit
    /\ UNCHANGED <<program, pending, legacyState>>

\* part_000:28-42, the map's click handler
MapClick(p) ==
    /\ AppRunning
    /\ lastOp' = Op("click", p)
    /\ IF selectionStart = Null
       THEN Commit(p, selectionEnd, bbox, outputPath, isGenerating, progress, result)
       ELSE IF selectionEnd = Null
       THEN Commit(selectionStart, p, MakeBBox(selectionStart, p), outputPath,
                   isGenerating, progress, result)
       ELSE NoCommit
    /\ UNCHANGED <<program, pending, legacyState>>

\* faulty variant: only the second point is cleared
ResetSelectionCall_KeepsStart ==
    /\ AppRunning
    /\ lastOp' = Op("reset", SelectionState)
    /\ Commit(selectionStart, Null, bbox, outputPath, isGenerating, progress,
              result)
    /\ UNCHANGED <<program, pending, legacyState>>

\* part_000:47-50, resetSelection itself; lastOp keeps the state it ran in
ResetSelectionCall ==
    /\ AppRunning
    /\ lastOp' = Op("reset", SelectionState)
    /\ Commit(Null, Null, bbox, outputPath, isGenerating, progress, result)
    /\ UNCHANGED <<program, pending, legacyState>>

\* part_000:77-79: the button that runs it is rendered only for a
\* complete selection
ResetSelection ==
    /\ view.reset
    /\ ResetSelectionCall

---------------------------------------------------------------------------
(* App, part_000:85-137 *)

\* faulty variant: a cancelled dialog clears the path
SelectOutputPath_CancelClears(selected) ==
    /\ AppRunning
    /\ lastOp' = Op("dialog", selected)
    /\ Commit(selectionStart, selectionEnd, bbox,
              IF selected.kind = "str" THEN selected.text ELSE NoPath,
              isGenerating, progress, result)
    /\ UNCHANGED <<program, pending, legacyState>>

\* part_000:105-115: the dialog returns `selected`
SelectOutputPath(selected) ==
    /\ AppRunning
    /\ lastOp' = Op("dialog", selected)
    /\ IF selected.kind = "str" /\ selected.text # EmptyText
       THEN Commit(selectionStart, selectionEnd, bbox, selected.text,
                   isGenerating, progress, result)
       ELSE NoCommit
    /\ UNCHANGED <<program, pending, legacyState>>

\* faulty variant: the in-flight flag is set before the precondition is tested
GenerateTerrain_FlagBeforeGuard ==
    /\ AppRunning
    /\ IF bbox = Null \/ outputPath = NoPath
       THEN /\ lastOp' = Op("alert", "select area and path")
            /\ Commit(selectionStart, selectionEnd, bbox, outputPath, TRUE,
                      progress, result)
            /\ UNCHANGED pending
       ELSE /\ pending < MaxPending
            /\ lastOp' = Op("generate", <<bbox, outputPath>>)
            /\ pending' = pending + 1
            /\ Commit(selectionStart, selectionEnd, bbox, outputPath, TRUE,
                      progress, EmptyText)
    /\ UNCHANGED <<program, legacyState>>

\* faulty variant: the previous result is not cleared at the start
GenerateTerrain_KeepsResult ==
    /\ AppRunning
    /\ IF bbox = Null \/ outputPath = NoPath
       THEN /\ lastOp' = Op("alert", "select area and path")
            /\ NoCommit
            /\ UNCHANGED pending
       ELSE /\ pending < MaxPending
            /\ lastOp' = Op("generate", <<bbox, outputPath>>)
            /\ pending' = pending + 1
            /\ Commit(selectionStart, selectionEnd, bbox, outputPath, TRUE,
                      progress, result)
    /\ UNCHANGED <<program, legacyState>>

\* faulty variant: the start of a generation resets the progress record
GenerateTerrain_ResetsProgress ==
    /\ AppRunning
    /\ IF bbox = Null \/ outputPath = NoPath
       THEN /\ lastOp' = Op("alert", "select area and path")
            /\ NoCommit
            /\ UNCHANGED pending
       ELSE /\ pending < MaxPending
            /\ lastOp' = Op("generate", <<bbox, outputPath>>)
            /\ pending' = pending + 1
            /\ Commit(selectionStart, selectionEnd, bbox, outputPath, TRUE,
                      InitialProgress, EmptyText)
    /\ UNCHANGED <<program, legacyState>>

\* part_000:117-130: generateTerrain up to the await
GenerateTerrain ==
    /\ AppRunning
    /\ IF bbox = Null \/ outputPath = NoPath
       THEN /\ lastOp' = Op("alert", "select area and path")
            /\ NoCommit
            /\ UNCHANGED pending
       ELSE /\ pending < MaxPending
            /\ lastOp' = Op("generate", <<bbox, outputPath>>)
            /\ pending' = pending + 1
            /\ Commit(selectionStart, selectionEnd, bbox, outputPath, TRUE,
                      progress, EmptyText)
    /\ UNCHANGED <<program, legacyState>>

\* part_000:171-177: the button runs generateTerrain unless it is disabled
ClickGenerate ==
    /\ ~view.disabled
    /\ GenerateTerrain

\* part_000:127-136: invoke resolves with m; setResult, then finally.
\* State updates of an unmounted component are dropped.
CommandResolves(m) ==
    /\ program = "app"
    /\ pending > 0
    /\ pending' = pending - 1
    /\ lastOp' = Op("resolve", m)
    /\ IF mounted
       THEN Commit(selectionStart, selectionEnd, bbox, outputPath, FALSE,
                   progress, m)
       ELSE NoCommit
    /\ UNCHANGED <<program, legacyState>>

\* part_000:132-136: invoke rejects with e; catch, then finally
CommandRejects(e) ==
    /\ program = "app"
    /\ pending > 0
    /\ pending' = pending - 1
    /\ lastOp' = Op("reject", e)
    /\ IF mounted
       THEN Commit(selectionStart, selectionEnd, bbox, outputPath, FALSE,
                   progress, ErrorPrefix \o JsString(e))
       ELSE NoCommit
    /\ UNCHANGED <<program, legacyState>>

\* faulty variant: the progress handler also ends the in-flight state
ProgressEvent_ResetsInFlight(payload) ==
    /\ program = "app"
    /\ handlerRegistered
    /\ lastOp' = Op("progress", payload)
    /\ IF mounted
       THEN Commit(selectionStart, selectionEnd, bbox, outputPath,
                   FALSE, payload, result)
       ELSE NoCommit
    /\ UNCHANGED <<program, pending, legacyState>>

\* part_000:96-98: the subscribed handler receives an event
ProgressEvent(payload) ==
    /\ program = "app"
    /\ handlerRegistered
    /\ lastOp' = Op("progress", payload)
    /\ IF mounted
       THEN Commit(selectionStart, selectionEnd, bbox, outputPath,
                   isGenerating, payload, result)
       ELSE NoCommit
    /\ UNCHANGED <<program, pending, legacyState>>

\* part_000:96: the backend registers the handler of the listen() call
ListenRegisters ==
    /\ program = "app"
    /\ listenPromise = "pending"
    /\ ~handlerRegistered
    /\ handlerRegistered' = TRUE
    /\ lastOp' = Op("listen-registered", Null)
    /\ UNCHANGED <<program, appState, view, mounted, crashed, listenPromise,
                   cleanupRan, pending, legacyState>>

\* faulty variant: a cleanup that ran while the promise was pending is forgotten
ListenResolves_NoDeferredCleanup ==
    /\ program = "app"
    /\ listenPromise = "pending"
    /\ handlerRegistered
    /\ listenPromise' = "resolved"
    /\ lastOp' = Op("listen-resolved", Null)
    /\ UNCHANGED <<program, appState, view, mounted, crashed, cleanupRan,
                   handlerRegistered, pending, legacyState>>

\* part_000:96 and 101: the promise of listen() resolves with the
\* unlisten function; a cleanup that already ran now calls it
ListenResolves ==
    /\ program = "app"
    /\ listenPromise = "pending"
    /\ handlerRegistered
    /\ listenPromise' = "resolved"
    /\ handlerRegistered' = ~cleanupRan
    /\ lastOp' = Op("listen-resolved", Null)
    /\ UNCHANGED <<program, appState, view, mounted, crashed, cleanupRan,
                   pending, legacyState>>

\* part_000:96: listen() fails; no handler was registered
ListenRejects ==
    /\ program = "app"
    /\ listenPromise = "pending"
    /\ ~handlerRegistered
    /\ listenPromise' = "rejected"
    /\ lastOp' = Op("listen-rejected", Null)
    /\ UNCHANGED <<program, appState, view, mounted, crashed,
                   handlerRegistered, cleanupRan, pending, legacyState>>

\* part_000:100-102: teardown of App runs the effect's cleanup
Unmount ==
    /\ AppRunning
    /\ mounted' = FALSE
    /\ view' = Blank
    /\ Cleanup
    /\ lastOp' = Op("unmount", Null)
    /\ UNCHANGED <<program, appState, crashed, pending, legacyState>>

---------------------------------------------------------------------------
(* The plain-DOM front-end: map.ts and part_001 *)

\* rectangles leaflet-draw can hand over: <<south, west, north, east>>
Boxes == {<<s, w, n, e>> : s \in Lats, w \in Lngs, n \in Lats, e \in Lngs}
Rectangles == {b \in Boxes : b[1] <= b[3] /\ b[2] <= b[4]}

LegacyAppFrame ==
    UNCHANGED <<program, appState, view, mounted, crashed, subState>>

\* map.ts:10, a rectangle was drawn
DrawRectangle(b) ==
    /\ program = "legacy"
    /\ lastBounds' = b
    /\ lastOp' = Op("draw", b)
    /\ LegacyAppFrame
    /\ UNCHANGED <<pending, currentBBox, bboxDiv, genBtnDisabled, progressbar>>

\* map.ts:13-18 calling window.setBBox, part_001:33
ClickSend ==
    /\ program = "legacy"
    /\ IF lastBounds = Null
       THEN /\ lastOp' = Op("alert", "Draw rectangle")
            /\ UNCHANGED <<currentBBox, bboxDiv>>
       ELSE /\ lastOp' = Op("send", lastBounds)
            /\ currentBBox' = lastBounds
            /\ bboxDiv' = lastBounds
    /\ LegacyAppFrame
    /\ UNCHANGED <<pending, lastBounds, genBtnDisabled, progressbar>>

\* part_001:7-11: generate() up to the await
LegacyGenerate ==
    /\ program = "legacy"
    /\ IF currentBBox = Null
       THEN /\ lastOp' = Op("alert", "Select area")
            /\ UNCHANGED <<pending, genBtnDisabled>>
       ELSE /\ pending < MaxPending
            /\ lastOp' = Op("generate", currentBBox)
            /\ genBtnDisabled' = TRUE
            /\ pending' = pending + 1
    /\ LegacyAppFrame
    /\ UNCHANGED <<lastBounds, currentBBox, bboxDiv, progressbar>>

\* part_001:16: a click reaches the listener unless the button is disabled
LegacyClickGenerate ==
    /\ ~genBtnDisabled
    /\ LegacyGenerate

\* part_001:11-13: invoke resolves; alert, then the button is enabled again
LegacyResolves(res) ==
    /\ program = "legacy"
    /\ pending > 0
    /\ pending' = pending - 1
    /\ lastOp' = Op("resolve", res)
    /\ genBtnDisabled' = FALSE
    /\ LegacyAppFrame
    /\ UNCHANGED <<lastBounds, currentBBox, bboxDiv, progressbar>>

\* part_001:11: invoke rejects; the await throws out of generate() and
\* lines 12-13 never run
LegacyRejects(e) ==
    /\ program = "legacy"
    /\ pending > 0
    /\ pending' = pending - 1
    /\ lastOp' = Op("reject", e)
    /\ LegacyAppFrame
    /\ UNCHANGED <<lastBounds, currentBBox, bboxDiv, genBtnDisabled, progressbar>>

\* part_001:23, JSON.parse(payload): the argument is converted to a string
\* first ("[object Object]" for an object, "null" for null)
JsonParse(payload) ==
    IF payload.kind = "obj" THEN [threw |-> TRUE]
    ELSE IF payload.kind = "null" THEN [threw |-> FALSE, val |-> "null"]
    ELSE IF payload.json = "{progress,text}"
         THEN [threw |-> FALSE, val |-> "object", p |-> 42, text |-> "tiles"]
    ELSE IF payload.json = "5" THEN [threw |-> FALSE, val |-> "number"]
    ELSE [threw |-> TRUE]

\* part_001:22-28, the text written to #progressbar, or "dropped" when the
\* try block throws (JSON.parse, or reading a property of null)
LegacyBarText(payload) ==
    LET parsed == JsonParse(payload) IN
    IF parsed.threw \/ parsed.val = "null" THEN [kind |-> "dropped"]
    ELSE IF parsed.val = "object"
         THEN [kind |-> "text", p |-> parsed.p, text |-> parsed.text]
    ELSE [kind |-> "text", p |-> 0, text |-> ""]

\* part_001:20-29, the bng_progress listener
LegacyProgress(payload) ==
    /\ program = "legacy"
    /\ lastOp' = Op("progress", payload)
    /\ progressbar' = (IF LegacyBarText(payload).kind = "dropped"
                       THEN progressbar ELSE LegacyBarText(payload))
    /\ LegacyAppFrame
    /\ UNCHANGED <<pending, lastBounds, currentBBox, bboxDiv, genBtnDisabled>>

---------------------------------------------------------------------------
(* Specifications *)

Init ==
    /\ program \in {"app", "legacy"}
    /\ selectionStart = Null
    /\ selectionEnd = Null
    /\ bbox = Null
    /\ outputPath = NoPath
    /\ isGenerating = FALSE
    /\ progress = InitialProgress
    /\ result = EmptyText
    /\ view = Render(Null, Null, Null, NoPath, FALSE, InitialProgress, EmptyText)
    /\ mounted = TRUE
    /\ crashed = FALSE
    /\ listenPromise = "pending"
    /\ handlerRegistered = FALSE
    /\ cleanupRan = FALSE
    /\ pending = 0
    /\ lastBounds = Null
    /\ currentBBox = Null
    /\ bboxDiv = Null
    /\ genBtnDisabled = FALSE
    /\ progressbar = [kind |-> "markup"]      \* whatever the page ships
    /\ lastOp = Op("init", Null)

Next ==
    \/ \E p \in Points : MapClick(p)
    \/ ResetSelection
    \/ \E selected \in DialogResults : SelectOutputPath(selected)
    \/ ClickGenerate
    \/ \E m \in Responses : CommandResolves(m)
    \/ \E e \in Errors : CommandRejects(e)
    \/ \E payload \in Payloads : ProgressEvent(payload)
    \/ ListenRegisters
    \/ ListenResolves
    \/ ListenRejects
    \/ Unmount
    \/ \E b \in Rectangles : DrawRectangle(b)
    \/ ClickSend
    \/ LegacyClickGenerate
    \/ \E res \in Responses : LegacyResolves(res)
    \/ \E e \in Errors : LegacyRejects(e)
    \/ \E payload \in LegacyPayloads : LegacyProgress(payload)

Spec == Init /\ [][Next]_vars

\* generateTerrain / generate / resetSelection called directly, not
\* through their buttons: the functions' own contract, without the gating
\* of the disabled attribute and of the conditional rendering
CallNext ==
    \/ Next
    \/ GenerateTerrain
    \/ LegacyGenerate
    \/ ResetSelectionCall

CallSpec == Init /\ [][CallNext]_vars

\* The backend answers every listen() call: the registration and the
\* settlement of its promise are not postponed forever.
FairSpec ==
    /\ Spec
    /\ WF_vars(ListenRegisters \/ ListenRejects)
    /\ WF_vars(ListenResolves)

---------------------------------------------------------------------------
(* Claims *)

\* C1: under the gating of the generate button at most one generation
\* request is outstanding at any time, in either front-end.
C1_AtMostOneOutstanding == pending <= 1

\* a request is outstanding while bbox and outputPath are present, and the
\* button that would issue a second one is disabled
C1_Witness ==
    /\ program = "app"
    /\ pending = 1
    /\ bbox # Null
    /\ outputPath # NoPath
    /\ view.disabled
    /\ lastOp.op = "progress"

\* C2 (as claimed): once the request has resolved or rejected and none is
\* outstanding, inFlight is false and the generate action is enabled again
\* (bbox and outputPath being present).
C2_ActionableAfterOutcome ==
    (lastOp.op \in {"resolve", "reject"} /\ pending = 0) =>
        /\ (program = "app" /\ mounted) =>
              /\ ~isGenerating
              /\ (bbox # Null /\ outputPath # NoPath) => ~view.disabled
        /\ program = "legacy" => ~genBtnDisabled

\* C3 (as claimed): in every state the generate action is disabled if and
\* only if bbox is absent or outputPath is absent or a generation is in
\* flight.  The plain-DOM front-end has no outputPath.
C3_DisabledIff ==
    /\ (program = "app" /\ mounted) =>
          (view.disabled <=> (bbox = Null \/ outputPath = NoPath \/ isGenerating))
    /\ program = "legacy" =>
          (genBtnDisabled <=> (currentBBox = Null \/ pending > 0))

\* C4: after the command rejected with e the result is the failure text
\* carrying the stringified e, isGenerating is false and the error panel
\* (not the success panel) is rendered.
C4_RejectYieldsFailure ==
    (program = "app" /\ mounted /\ lastOp.op = "reject") =>
        /\ result = ErrorPrefix \o JsString(lastOp.arg)
        /\ Outcome(result).tag = "Failure"
        /\ Includes(Outcome(result).message, JsString(lastOp.arg))
        /\ ~isGenerating
        /\ view.panel = "error"

C4_Witness ==
    /\ program = "app"
    /\ mounted
    /\ lastOp = Op("reject", ErrStr(TextDiskFull))
    /\ Includes(result, TextDiskFull)
    /\ view.panel = "error"
    /\ ~isGenerating

\* C5 (as claimed): after the command resolved with m, for every m, the
\* outcome is Success(m), isGenerating is false and the success panel is
\* rendered.
C5_ResolveYieldsSuccess ==
    (program = "app" /\ mounted /\ lastOp.op = "resolve") =>
        /\ Outcome(result) = [tag |-> "Success", message |-> lastOp.arg]
        /\ ~isGenerating
        /\ view.panel = "success"

\* C6: generate called while bbox or outputPath is absent issues no backend
\* command and leaves inFlight and every other field of the view state
\* unchanged; it only alerts.
C6_PreconditionNoEffect ==
    [][((GenerateTerrain /\ (bbox = Null \/ outputPath = NoPath))
         \/ (LegacyGenerate /\ currentBBox = Null))
       => /\ lastOp'.op = "alert"
          /\ UNCHANGED <<pending, appState, view, mounted, crashed, subState,
                         legacyState>>]_vars

\* generateTerrain was called with a bbox but no output path
C6_Witness ==
    /\ program = "app"
    /\ lastOp = Op("alert", "select area and path")
    /\ bbox # Null
    /\ outputPath = NoPath
    /\ ~isGenerating
    /\ pending = 0

\* C7 (as claimed): a generate call with valid inputs sets inFlight, clears
\* the outcome and issues one request, and the settlement of that request
\* leaves exactly one outcome, Success or Failure.
C7_ExactlyOneOutcome ==
    /\ (program = "app" /\ mounted /\ lastOp.op = "generate") =>
          (isGenerating /\ Outcome(result).tag = "absent" /\ pending = 1)
    /\ (program = "app" /\ mounted /\ lastOp.op \in {"resolve", "reject"}) =>
          (~isGenerating /\ Outcome(result).tag \in {"Success", "Failure"})

\* C8: a progress event (a GenerationProgress) delivered to the mounted
\* application sets progress to its payload and changes nothing else:
\* result, isGenerating, the selection, bbox and outputPath stay as they are.
C8_ProgressOnlyUpdatesLatest ==
    [][\A payload \in Payloads :
          (ProgressEvent(payload) /\ mounted /\ Decodable(payload))
          => /\ progress' = payload
             /\ UNCHANGED <<selectionStart, selectionEnd, bbox, outputPath,
                            isGenerating, result, pending, mounted, crashed>>]_vars

\* the event arrived after the command had resolved
C8_Witness ==
    /\ program = "app"
    /\ mounted
    /\ lastOp = Op("progress", PObj("tiles", 42))
    /\ progress = PObj("tiles", 42)
    /\ pending = 0
    /\ ~isGenerating
    /\ result = TextOK

\* C9 (as claimed): a progress event whose payload is not a
\* GenerationProgress changes no field of the view state and does not
\* crash the UI.
C9_MalformedDropped ==
    [][\A payload \in LegacyPayloads :
          \/ (ProgressEvent(payload) /\ ~Decodable(payload))
          \/ (LegacyProgress(payload) /\ ~LegacyDecodable(payload))
          => UNCHANGED <<appState, view, mounted, crashed, legacyState>>]_vars

\* C10: after teardown the progress handler is eventually unregistered and
\* stays so, also when teardown came before the registration completed.
C10_SubscriptionReleased ==
    /\ (program = "app" /\ ~mounted)
          ~> (listenPromise # "pending" /\ ~handlerRegistered)
    /\ [](~mounted /\ listenPromise # "pending" => ~handlerRegistered)

\* teardown came mid-generation and before listen() resolved; the handler
\* was released when it did
C10_Witness ==
    /\ program = "app"
    /\ ~mounted
    /\ ~crashed
    /\ cleanupRan
    /\ pending = 1
    /\ lastOp.op = "listen-resolved"
    /\ listenPromise = "resolved"
    /\ ~handlerRegistered

\* C11: the second click p1 after a first click p0 hands over the box of
\* the element-wise minima and maxima of the two points, so min_lat <=
\* max_lat and min_lng <= max_lng, and the box is the one the clicks in the
\* other order give.
C11_BBoxIsMinMax ==
    [][\A p \in Points :
          (MapClick(p) /\ SelectionState = "FirstPointCaptured")
          => /\ bbox'[1] <= selectionStart[1] /\ bbox'[1] <= p[1]
             /\ bbox'[1] \in {selectionStart[1], p[1]}
             /\ bbox'[2] <= selectionStart[2] /\ bbox'[2] <= p[2]
             /\ bbox'[2] \in {selectionStart[2], p[2]}
             /\ bbox'[3] >= selectionStart[1] /\ bbox'[3] >= p[1]
             /\ bbox'[3] \in {selectionStart[1], p[1]}
             /\ bbox'[4] >= selectionStart[2] /\ bbox'[4] >= p[2]
             /\ bbox'[4] \in {selectionStart[2], p[2]}
             /\ bbox'[1] <= bbox'[3]
             /\ bbox'[2] <= bbox'[4]
             /\ bbox' = MakeBBox(p, selectionStart)]_vars

\* the scenario "(10,20) then (30,5)" at the model's scale: (0,1) then (1,0)
C11_Witness ==
    /\ program = "app"
    /\ mounted
    /\ lastOp = Op("click", <<1, 0>>)
    /\ selectionStart = <<0, 1>>
    /\ selectionEnd = <<1, 0>>
    /\ bbox = <<0, 0, 1, 1>>

\* C12: a click while the selection is complete changes neither the two
\* captured points nor the bounding box (nor anything else of the view
\* state), however often it is repeated.
C12_ClickOnCompleteIgnored ==
    [][\A p \in Points :
          (MapClick(p) /\ SelectionState = "Complete")
          => UNCHANGED <<appState, view, mounted, pending>>]_vars

\* a further click, at another point than the two captured ones
C12_Witness ==
    /\ program = "app"
    /\ mounted
    /\ SelectionState = "Complete"
    /\ lastOp.op = "click"
    /\ lastOp.arg # selectionEnd
    /\ lastOp.arg # selectionStart
    /\ bbox = MakeBBox(selectionStart, selectionEnd)

\* C13: the selection state changes only by a click from Empty to
\* FirstPointCaptured or from FirstPointCaptured to Complete, or by reset to
\* Empty; and the bounding box is handed over only at the step from
\* FirstPointCaptured to Complete, which always hands one over.
C13_ForwardOrReset ==
    [][/\ (SelectionState' # SelectionState) =>
             \/ /\ lastOp'.op = "click"
                /\ \/ /\ SelectionState = "Empty"
                      /\ SelectionState' = "FirstPointCaptured"
                   \/ /\ SelectionState = "FirstPointCaptured"
                      /\ SelectionState' = "Complete"
             \/ /\ lastOp'.op = "reset"
                /\ SelectionState' = "Empty"
       /\ (bbox' # bbox) =>
             /\ SelectionState = "FirstPointCaptured"
             /\ SelectionState' = "Complete"
       /\ (SelectionState = "FirstPointCaptured" /\ SelectionState' = "Complete")
             => bbox' = MakeBBox(selectionStart', selectionEnd')
       /\ (selectionStart' = Null) => (selectionEnd' = Null)]_vars

\* a selection completed by its second click, with an earlier result shown
C13_Witness ==
    /\ program = "app"
    /\ mounted
    /\ SelectionState = "Complete"
    /\ lastOp.op = "click"
    /\ lastOp.arg = selectionEnd
    /\ bbox = <<1, 1, 1, 1>>
    /\ result = TextOK

\* C14: resetSelection, run in any selection state, leaves the selection
\* Empty, and the click that follows a reset captures its point as the
\* first point.
C14_ResetThenFirstPoint ==
    [][/\ ResetSelectionCall => SelectionState' = "Empty"
       /\ \A p \in Points :
             (lastOp.op = "reset" /\ MapClick(p))
             => /\ selectionStart' = p
                /\ SelectionState' = "FirstPointCaptured"]_vars

\* reset ran with only the first point captured, where no button offers it
C14_Witness ==
    /\ program = "app"
    /\ mounted
    /\ lastOp = Op("reset", "FirstPointCaptured")
    /\ SelectionState = "Empty"

\* C15: a dialog that returns no value leaves outputPath as it was, set or
\* not; outputPath changes only to a path string the dialog returned, and a
\* returned non-empty path always becomes outputPath.
C15_CancelKeepsPath ==
    [][\A selected \in DialogResults :
          SelectOutputPath(selected)
          => /\ (selected = Cancelled) => (outputPath' = outputPath)
             /\ (outputPath' # outputPath) =>
                   (selected.kind = "str" /\ outputPath' = selected.text)
             /\ (selected.kind = "str" /\ selected.text # EmptyText) =>
                   (outputPath' = selected.text)]_vars

\* the dialog was cancelled while a path was already set
C15_Witness ==
    /\ program = "app"
    /\ mounted
    /\ lastOp = Op("dialog", Cancelled)
    /\ outputPath = DirA

\* C16 (as claimed): the bounding box of App is present exactly when the
\* selection is complete, and is then the min/max box of the two captured
\* points; after a reset no box of the discarded selection is left for
\* generate to use.
C16_BBoxAgreesWithSelector ==
    (program = "app" /\ mounted) =>
        /\ (bbox # Null) <=> (SelectionState = "Complete")
        /\ (SelectionState = "Complete") =>
              (bbox = MakeBBox(selectionStart, selectionEnd))
        /\ (lastOp.op = "reset") => (bbox = Null /\ view.disabled)

\* C17: isGenerating implies that result is empty, and a non-empty result
\* implies that isGenerating is false; the progress bar and the result
\* panel are never rendered together.
C17_InFlightExcludesOutcome ==
    program = "app" =>
        /\ isGenerating => Outcome(result).tag = "absent"
        /\ (Outcome(result).tag # "absent") => ~isGenerating
        /\ ~(view.bar.kind = "bar" /\ view.panel # "none")

\* a generation was started and the bar is shown without a panel
C17_Witness ==
    /\ program = "app"
    /\ mounted
    /\ lastOp.op = "generate"
    /\ isGenerating
    /\ result = EmptyText
    /\ view.bar.kind = "bar"
    /\ view.panel = "none"

\* C18: the start of a generation changes isGenerating and result only:
\* progress keeps the last payload received, and the progress bar that
\* appears shows that value.
C18_StartKeepsProgress ==
    [][(GenerateTerrain /\ bbox # Null /\ outputPath # NoPath)
       => /\ progress' = progress
          /\ UNCHANGED <<selectionStart, selectionEnd, bbox, outputPath>>
          /\ isGenerating'
          /\ result' = EmptyText
          /\ mounted' =>
                view'.bar = [kind |-> "bar", width |-> progress.progress,
                             stage |-> progress.stage]]_vars

\* a generation starts with the progress of an earlier event still in place
C18_Witness ==
    /\ program = "app"
    /\ mounted
    /\ lastOp.op = "generate"
    /\ progress = PObj("tiles", 42)
    /\ view.bar = [kind |-> "bar", width |-> 42, stage |-> "tiles"]

=============================================================================
